---------------------------- MODULE Spec2Model ----------------------------
(***************************************************************************)
(* numeric::LimitedCombination<AtomType> (src/src/LimitedCombination.hpp). *)
(*                                                                         *)
(* A generator is built from an availability map atom -> count, a size and *)
(* a mode.  It numbers the atoms, hands the numbered item list to a        *)
(* numeric::Combination<CoreType> walker and decodes what the walker       *)
(* holds.  numeric::Combination is declared in numeric/Combinatorics.hpp;  *)
(* the walker below follows the contract the specification gives for it    *)
(* (sections 3, 4.2 and 8).                                                *)
(***************************************************************************)
EXTENDS Integers, Sequences, FiniteSets, TLC

VARIABLES
    countMap,     \* constructor argument: the availability map
    size,         \* constructor argument: the requested size
    mode,         \* constructor argument: the mode
    pc,           \* "new" before construction, then "ready" or "threw"
    gen,          \* the generator object (its fields), NoGen before/without one
    op,           \* the last operation performed on the generator
    lastCurrent,  \* the value the last call of current() returned
    lastNext,     \* what the last call of next() returned: "true", "false"; "none" before one
    nRepeat,      \* how many times in a row the last operation was repeated
    produced,     \* the combinations the cursor has stood on, in order
    twin,         \* a second, independently constructed generator (PairSpec)
    heap,         \* the number of walkers gen has allocated with new, not deleted
    totalCall     \* the last call of totalNumberOfAtoms: its argument and result

vars == <<countMap, size, mode, pc, gen, op, lastCurrent, lastNext, nRepeat,
          produced, twin, heap, totalCall>>

---------------------------------------------------------------------------
(* Bounds of the model *)

\* largest availability count of one atom
MaxCount == 2
\* largest requested size
MaxSize == 5
\* largest total number of atoms of a map
MaxTotal == 4
\* how many repeated calls of one operation in a row are told apart
MaxRepeat == 2

\* The atom type: integers in their natural order.  The values are not
\* 0, 1, 2, so that decoding a code into an atom is not the identity.
Atoms == {3, 5, 8}

Modes == {"EXACT", "MIN", "MAX"}


NoGen == [state |-> "none"]
NullPtr == [state |-> "null"]
NoCall == [state |-> "none"]

---------------------------------------------------------------------------
(* Helpers *)

\* the elements of a finite set of integers in ascending order: the order in
\* which a std::map is iterated
SortedSeq(S) ==
    [i \in 1..Cardinality(S) |->
        CHOOSE x \in S : Cardinality({y \in S : y < x}) = i - 1]

\* n copies of x
Copies(n, x) == [i \in 1..n |-> x]

\* std::sort on a vector of atoms
Sort(s) == SortSeq(s, LAMBDA a, b : a < b)

\* the number of occurrences of x in the sequence s
Occurrences(s, x) == Cardinality({i \in DOMAIN s : s[i] = x})

IsSorted(s) == \A i \in 1..(Len(s) - 1) : s[i] <= s[i + 1]

RECURSIVE SumOver(_, _)
SumOver(f, S) ==
    IF S = {} THEN 0
    ELSE LET x == CHOOSE y \in S : TRUE IN f[x] + SumOver(f, S \ {x})

\* every std::map<AtomType, size_t> over the atoms, the empty map included,
\* with at most MaxTotal atoms in all
CountMaps ==
    {m \in UNION {[K -> 0..MaxCount] : K \in SUBSET Atoms} :
        SumOver(m, DOMAIN m) <= MaxTotal}

---------------------------------------------------------------------------
(* numeric::Combination<CoreType>: the walker, from its contract *)

\* the codes that occur in the item list
ItemCodes(items) == {items[i] : i \in DOMAIN items}

\* a draw says how many copies of each code are taken; never more copies
\* than the item list holds
Draws(items) ==
    LET codes == ItemCodes(items)
        most == [c \in codes |-> Occurrences(items, c)]
        top == IF codes = {} THEN 0 ELSE CHOOSE n \in 0..Len(items) :
                   /\ \E c \in codes : most[c] = n
                   /\ \A c \in codes : most[c] <= n
    IN  {d \in [codes -> 0..top] : \A c \in codes : d[c] <= most[c]}

DrawSize(d) == SumOver(d, DOMAIN d)

\* the draw sizes a mode admits: EXACT exactly the size, MIN the size and
\* everything above it, MAX everything up to the size.  Under MAX the walk
\* starts with the draws of one item (A:2, B:1, C:1 with size 2 gives A, B, C,
\* AA, AB, AC, BC); the empty draw is the only one left when the size is 0.
DrawSizes(items, sizeOfDraw, md) ==
    LET all == 0..Len(items) IN
    CASE md = "EXACT" -> {n \in all : n = sizeOfDraw}
      [] md = "MIN"   -> {n \in all : n >= sizeOfDraw}
      [] md = "MAX"   -> {n \in all : n <= sizeOfDraw /\ (n >= 1 \/ sizeOfDraw = 0)}

\* the draws the walk visits
WalkDraws(items, sizeOfDraw, md) ==
    LET sizes == DrawSizes(items, sizeOfDraw, md) IN
    {d \in Draws(items) : DrawSize(d) \in sizes}

\* the walk goes through its draws by growing size and, within one size, in
\* a fixed order of the draws
DrawKey(items, d) ==
    LET base == Len(items) + 1
        weighted == [c \in DOMAIN d |-> d[c] * base ^ c]
    IN  DrawSize(d) * base ^ (Cardinality(DOMAIN d) + 1) + SumOver(weighted, DOMAIN d)

\* the items of a draw, in the order in which the item list holds them
DrawItems(items, d) ==
    LET taken == {i \in DOMAIN items :
                     Cardinality({j \in 1..(i - 1) : items[j] = items[i]}) < d[items[i]]}
        pos == SortedSeq(taken)
    IN  [k \in 1..Len(pos) |-> items[pos[k]]]

\* the walk: the code sequences of the draws, in the order of their keys
Walk(items, sizeOfDraw, md) ==
    LET draws == WalkDraws(items, sizeOfDraw, md)
        keys == SortedSeq({DrawKey(items, d) : d \in draws})
    IN  [i \in 1..Len(keys) |->
            DrawItems(items, CHOOSE d \in draws : DrawKey(items, d) = keys[i])]

\* Combination(items, size, mode): the cursor stands on the first draw of
\* the walk
Combination(items, sizeOfDraw, md) ==
    LET walk == Walk(items, sizeOfDraw, md) IN
    [items     |-> items,
     size      |-> sizeOfDraw,
     mode      |-> md,
     walk      |-> walk,
     pos       |-> 1,
     exhausted |-> walk = <<>>]

\* Combination::current(): the codes of the draw the cursor stands on
Combination_current(w) ==
    IF w.pos \in DOMAIN w.walk THEN w.walk[w.pos] ELSE <<>>

\* Combination::next(): move the cursor to the next draw and say whether
\* there was one; exhaustion is terminal
Combination_next(w) ==
    IF ~w.exhausted /\ w.pos < Len(w.walk)
    THEN [walker |-> [w EXCEPT !.pos = @ + 1], result |-> TRUE]
    ELSE [walker |-> [w EXCEPT !.exhausted = TRUE], result |-> FALSE]

---------------------------------------------------------------------------
(* LimitedCombination *)

\* totalNumberOfAtoms(countMap): the loop over the map
\* (faulty variant: count = cit->second for count += cit->second)
RECURSIVE totalNumberOfAtomsLoopAssign(_, _, _, _)
totalNumberOfAtomsLoopAssign(cm, keys, i, count) ==
    IF i > Len(keys) THEN count
    ELSE totalNumberOfAtomsLoopAssign(cm, keys, i + 1, cm[keys[i]])

RECURSIVE totalNumberOfAtomsLoop(_, _, _, _)
totalNumberOfAtomsLoop(cm, keys, i, count) ==
    IF i > Len(keys) THEN count
    ELSE totalNumberOfAtomsLoop(cm, keys, i + 1, count + cm[keys[i]])

totalNumberOfAtoms(cm) == totalNumberOfAtomsLoop(cm, SortedSeq(DOMAIN cm), 1, 0)

\* mItems.insert(mItems.begin(), numberPerType, currentType)
\* (faulty variant: the single-element insert, one copy whatever the count)
insertTooFew(mItems, numberPerType, currentType) ==
    IF numberPerType = 0 THEN mItems ELSE <<currentType>> \o mItems

insertItems(mItems, numberPerType, currentType) ==
    Copies(numberPerType, currentType) \o mItems

\* ++currentType
\* (faulty variant: the increment left out)
nextTypeStuck(currentType) == currentType

nextType(currentType) == currentType + 1

\* prepare(): the loop over the availability map
\* (faulty variant: a key whose count is 0 is passed over, without a code)
RECURSIVE prepareLoopSkipEmpty(_, _, _, _)
prepareLoopSkipEmpty(g, keys, i, currentType) ==
    IF i > Len(keys) THEN g
    ELSE LET numberPerType == g.mAtomTypeAvailablilityMap[keys[i]] IN
         IF numberPerType = 0
         THEN prepareLoopSkipEmpty(g, keys, i + 1, currentType)
         ELSE prepareLoopSkipEmpty(
                 [g EXCEPT !.mAtomTypeList = Append(@, keys[i]),
                           !.mItems = insertItems(@, numberPerType, currentType)],
                 keys, i + 1, nextType(currentType))

RECURSIVE prepareLoop(_, _, _, _)
prepareLoop(g, keys, i, currentType) ==
    IF i > Len(keys) THEN g
    ELSE LET numberPerType == g.mAtomTypeAvailablilityMap[keys[i]] IN
         prepareLoop(
            [g EXCEPT !.mAtomTypeList = Append(@, keys[i]),
                      !.mItems = insertItems(@, numberPerType, currentType)],
            keys, i + 1, nextType(currentType))

prepare(g) ==
    LET filled == prepareLoop(g, SortedSeq(DOMAIN g.mAtomTypeAvailablilityMap), 1, 0) IN
    [filled EXCEPT !.mpItemCombinationGenerator =
                       Combination(filled.mItems, filled.mSize, filled.mMode)]

\* the constructor's test for "no atoms"
\* (faulty variant: only the empty map is tested)
noAtomsEmptyOnly(cm, totalCount) == DOMAIN cm = {}

noAtoms(cm, totalCount) == DOMAIN cm = {} \/ totalCount = 0

\* the constructor's clamping of the size
\* (faulty variants: clamped to the number of keys; not clamped)
clampSizeToKeys(mSize, cm, totalCount) ==
    IF mSize > Cardinality(DOMAIN cm) THEN Cardinality(DOMAIN cm) ELSE mSize

clampSizeNot(mSize, cm, totalCount) == mSize

clampSize(mSize, cm, totalCount) == IF mSize > totalCount THEN totalCount ELSE mSize

\* (faulty variant of next(), defined further down: an exhausted walk is
\* prepared anew)
nextRepreparing(g) ==
    LET r == Combination_next(g.mpItemCombinationGenerator) IN
    IF r.result
    THEN [gen |-> [g EXCEPT !.mpItemCombinationGenerator = r.walker], result |-> TRUE]
    ELSE [gen |-> prepare(g), result |-> FALSE]

\* LimitedCombination(countMap, size, mode): the generator, or Threw for
\* std::invalid_argument
Threw == [state |-> "threw"]

LimitedCombination(cm, sz, md) ==
    LET totalCount == totalNumberOfAtoms(cm) IN
    IF noAtoms(cm, totalCount) THEN Threw
    ELSE prepare([state                      |-> "constructed",
                  mAtomTypeAvailablilityMap  |-> cm,
                  mAtomTypeList              |-> <<>>,
                  mItems                     |-> <<>>,
                  mpItemCombinationGenerator |-> NullPtr,
                  mSize                      |-> clampSize(sz, cm, totalCount),
                  mMode                      |-> md])

\* mapToAtomTypes(combination)
\* (faulty variant: the table read from its end)
mapToAtomTypesReversed(g, combination) ==
    [i \in 1..Len(combination) |->
        g.mAtomTypeList[Len(g.mAtomTypeList) - combination[i]]]

mapToAtomTypes(g, combination) ==
    [i \in 1..Len(combination) |-> g.mAtomTypeList[combination[i] + 1]]

\* current(): decode what the walker holds and sort it
\* (faulty variant: the std::sort left out)
currentUnsorted(g) == mapToAtomTypes(g, Combination_current(g.mpItemCombinationGenerator))

current(g) == Sort(mapToAtomTypes(g, Combination_current(g.mpItemCombinationGenerator)))

\* next(): the walker's next(); the generator with the walker moved, and
\* the value returned
\* (faulty variants: the result negated; the result dropped for true)
nextNegated(g) ==
    LET r == Combination_next(g.mpItemCombinationGenerator) IN
    [gen |-> [g EXCEPT !.mpItemCombinationGenerator = r.walker], result |-> ~r.result]

nextAlwaysTrue(g) ==
    LET r == Combination_next(g.mpItemCombinationGenerator) IN
    [gen |-> [g EXCEPT !.mpItemCombinationGenerator = r.walker], result |-> TRUE]

next(g) ==
    LET r == Combination_next(g.mpItemCombinationGenerator) IN
    [gen |-> [g EXCEPT !.mpItemCombinationGenerator = r.walker], result |-> r.result]

---------------------------------------------------------------------------
(* The caller: constructs a generator, then calls current() and next() *)

Init ==
    /\ countMap \in CountMaps
    /\ size \in 0..MaxSize
    /\ mode \in Modes
    /\ pc = "new"
    /\ gen = NoGen
    /\ op = "none"
    /\ lastCurrent = <<>>
    /\ lastNext = "none"
    /\ nRepeat = 0
    /\ produced = <<>>
    /\ twin = NoGen
    /\ heap = 0
    /\ totalCall = NoCall

ConstructStep ==
    /\ pc = "new"
    /\ LET g == LimitedCombination(countMap, size, mode) IN
       /\ gen' = g
       /\ pc' = IF g = Threw THEN "threw" ELSE "ready"
       /\ produced' = IF g = Threw THEN <<>> ELSE <<current(g)>>
       /\ heap' = IF g = Threw THEN heap ELSE heap + 1
    /\ op' = "construct"
    /\ nRepeat' = 0
    /\ UNCHANGED <<countMap, size, mode, lastCurrent, lastNext, totalCall>>

\* (faulty variant: current() moves the cursor)
CurrentStepAdvancing ==
    /\ pc = "ready"
    /\ lastNext # "false"
    /\ nRepeat < MaxRepeat \/ op # "current"
    /\ lastCurrent' = current(gen)
    /\ gen' = next(gen).gen
    /\ op' = "current"
    /\ nRepeat' = IF op = "current" THEN nRepeat + 1 ELSE 0
    /\ UNCHANGED <<countMap, size, mode, pc, lastNext, produced, heap, totalCall>>

CurrentStep ==
    /\ pc = "ready"
    /\ lastNext # "false"
    /\ nRepeat < MaxRepeat \/ op # "current"
    /\ lastCurrent' = current(gen)
    /\ op' = "current"
    /\ nRepeat' = IF op = "current" THEN nRepeat + 1 ELSE 0
    /\ UNCHANGED <<countMap, size, mode, pc, gen, lastNext, produced, heap, totalCall>>

NextStep ==
    /\ pc = "ready"
    /\ nRepeat < MaxRepeat \/ lastNext # "false"
    /\ LET r == next(gen) IN
       /\ gen' = r.gen
       /\ lastNext' = IF r.result THEN "true" ELSE "false"
       /\ produced' = IF r.result /\ lastNext # "false"
                      THEN Append(produced, current(r.gen)) ELSE produced
    /\ op' = "next"
    /\ nRepeat' = IF lastNext = "false" THEN nRepeat + 1 ELSE 0
    /\ UNCHANGED <<countMap, size, mode, pc, lastCurrent, heap, totalCall>>

Construct == ConstructStep /\ UNCHANGED twin
Current == CurrentStep /\ UNCHANGED twin
Advance == NextStep /\ UNCHANGED twin

Next == Construct \/ Current \/ Advance

Spec == Init /\ [][Next]_vars

---------------------------------------------------------------------------
(* The documented loop: do { current() } while(next()) *)

\* the loop starts on a constructed generator
LoopInit ==
    /\ countMap \in CountMaps
    /\ size \in 0..MaxSize
    /\ mode \in Modes
    /\ gen = LimitedCombination(countMap, size, mode)
    /\ pc = IF gen = Threw THEN "threw" ELSE "ready"
    /\ produced = IF gen = Threw THEN <<>> ELSE <<current(gen)>>
    /\ op = "construct"
    /\ lastCurrent = <<>>
    /\ lastNext = "none"
    /\ nRepeat = 0
    /\ twin = NoGen
    /\ heap = IF gen = Threw THEN 0 ELSE 1
    /\ totalCall = NoCall

LoopBody ==
    /\ op = "construct" \/ (op = "next" /\ lastNext = "true")
    /\ Current

LoopCondition ==
    /\ op = "current"
    /\ Advance

LoopNext == LoopBody \/ LoopCondition

\* the calls are synchronous and run to completion: the loop keeps going
LoopSpec == LoopInit /\ [][LoopNext]_vars /\ WF_vars(LoopNext)

---------------------------------------------------------------------------
(* Two generators constructed from the same map and mode, stepped together *)

PairInit ==
    /\ countMap \in CountMaps
    /\ size \in 0..MaxSize
    /\ mode \in Modes
    /\ pc = "new"
    /\ gen = NoGen
    /\ op = "none"
    /\ lastCurrent = <<>>
    /\ lastNext = "none"
    /\ nRepeat = 0
    /\ produced = <<>>
    \* the second generator is given the same size, or the total of the map
    /\ \E sz \in {size, totalNumberOfAtoms(countMap)} :
          twin = [size |-> sz, gen |-> NoGen, lastCurrent |-> <<>>, lastNext |-> "none"]
    /\ heap = 0
    /\ totalCall = NoCall

PairConstruct ==
    /\ ConstructStep
    /\ twin' = [twin EXCEPT !.gen = LimitedCombination(countMap, twin.size, mode)]

PairCurrent ==
    /\ CurrentStep
    /\ twin' = [twin EXCEPT !.lastCurrent = current(twin.gen)]

PairAdvance ==
    /\ NextStep
    /\ LET r == next(twin.gen) IN
       twin' = [twin EXCEPT !.gen = r.gen,
                            !.lastNext = IF r.result THEN "true" ELSE "false"]

PairNext == PairConstruct \/ PairCurrent \/ PairAdvance

PairSpec == PairInit /\ [][PairNext]_vars

---------------------------------------------------------------------------
(* The life of a generator: constructed, used, destroyed *)

\* ~LimitedCombination(): the class declares no destructor, so the implicit
\* one destroys the members (the map, the vectors, the pointer) and deletes
\* nothing the pointer points to
Destroy ==
    /\ pc = "ready"
    /\ pc' = "destroyed"
    /\ gen' = NoGen
    /\ op' = "destroy"
    /\ UNCHANGED <<countMap, size, mode, lastCurrent, lastNext, nRepeat,
                   produced, twin, heap, totalCall>>

LifeNext == Construct \/ Current \/ Advance \/ Destroy

LifeSpec == Init /\ [][LifeNext]_vars

---------------------------------------------------------------------------
(* A caller of the static totalNumberOfAtoms, beside a constructed generator *)

\* one call, with any map
TotalCall ==
    /\ totalCall = NoCall
    /\ \E m \in CountMaps :
          totalCall' = [arg |-> m, result |-> totalNumberOfAtoms(m)]
    /\ UNCHANGED <<countMap, size, mode, pc, gen, op, lastCurrent, lastNext,
                   nRepeat, produced, twin, heap>>

TotalNext == TotalCall

TotalSpec == LoopInit /\ [][TotalNext]_vars

---------------------------------------------------------------------------
(* What the claims speak of, stated on the constructor's arguments *)

\* the availability of an atom: its count in the map, none if it is no key
Avail(a) == IF a \in DOMAIN countMap THEN countMap[a] ELSE 0

\* the total number of atoms of the map
Total == SumOver(countMap, DOMAIN countMap)

\* the requested size, clamped to the total
Clamped == IF size > Total THEN Total ELSE size

\* the multiset of atoms of a combination
BagOf(s) == [a \in Atoms |-> Occurrences(s, a)]

BagSize(b) == SumOver(b, Atoms)

\* the sub-multisets of the availability map
SubBags == {b \in [Atoms -> 0..MaxCount] : \A a \in Atoms : b[a] <= Avail(a)}

\* the lengths the mode permits
AllowedLen(n) ==
    CASE mode = "EXACT" -> n = Clamped
      [] mode = "MIN"   -> n >= Clamped /\ n <= Total
      [] mode = "MAX"   -> n <= Clamped

\* the lengths walked: under MAX with a size of 1 or more, the empty
\* combination is not among them
WalkedLen(n) == AllowedLen(n) /\ (mode = "MAX" /\ Clamped >= 1 => n >= 1)

\* a combination made of atoms of the map, none more often than available
RespectsAvailability(s) ==
    /\ \A i \in DOMAIN s : s[i] \in DOMAIN countMap
    /\ \A a \in Atoms : Occurrences(s, a) <= Avail(a)

\* the generator stands on a combination: constructed and not exhausted
Enumerating == pc = "ready" /\ lastNext # "false"

ProducedBags == {BagOf(produced[i]) : i \in DOMAIN produced}

\* no two steps produced the same multiset
NoRepeats == Cardinality(ProducedBags) = Len(produced)

---------------------------------------------------------------------------
(* The claims *)

\* C1 as stated: when next() first returns false, the combinations produced
\* are all the sub-multisets of the map whose size the mode permits (EXACT the
\* clamped size, MIN from it to the total, MAX up to it), each exactly once.
C1_AllPermittedOnce ==
    (pc = "ready" /\ lastNext = "false") =>
        /\ NoRepeats
        /\ ProducedBags = {b \in SubBags : AllowedLen(BagSize(b))}
        /\ Len(produced) = Cardinality({b \in SubBags : AllowedLen(BagSize(b))})

\* C1 amended: when next() first returns false, the combinations produced are
\* all the sub-multisets of the map whose size the mode permits, each exactly
\* once, except that under MAX with a clamped size of 1 or more the empty
\* combination is not produced.
C1_AllWalkedOnce ==
    (pc = "ready" /\ lastNext = "false") =>
        /\ NoRepeats
        /\ \A i \in DOMAIN produced : RespectsAvailability(produced[i])
        /\ ProducedBags = {b \in SubBags : WalkedLen(BagSize(b))}
        /\ Len(produced) = Cardinality({b \in SubBags : WalkedLen(BagSize(b))})

C1_Witness ==
    /\ pc = "ready" /\ lastNext = "false"
    /\ mode = "MAX" /\ size = 2
    /\ Cardinality(DOMAIN countMap) = 3 /\ Total = 4
    /\ Len(produced) = 7

\* C2: in every combination current() returns before exhaustion, no atom
\* occurs more often than its availability count; an atom of count 0 never
\* occurs.
C2_RespectsAvailability ==
    Enumerating =>
        /\ RespectsAvailability(current(gen))
        /\ op = "current" => RespectsAvailability(lastCurrent)
        /\ \A i \in DOMAIN produced : RespectsAvailability(produced[i])

C2_Witness ==
    /\ Enumerating /\ op = "current"
    /\ \E a \in DOMAIN countMap : countMap[a] = 0
    /\ \E a \in DOMAIN countMap : countMap[a] = 2 /\ Occurrences(lastCurrent, a) = 2

\* C3: every combination current() returns before exhaustion has a length
\* the mode allows: EXACT the clamped size, MIN from the clamped size to the
\* total, MAX at most the clamped size.
C3_LengthAllowed ==
    Enumerating =>
        /\ AllowedLen(Len(current(gen)))
        /\ op = "current" => AllowedLen(Len(lastCurrent))

C3_Witness ==
    /\ Enumerating /\ op = "current"
    /\ mode = "MIN" /\ size = 2 /\ Total = 4
    /\ Len(lastCurrent) = 3

\* C4: for a valid map, a generator constructed with a size above the total
\* and one constructed with the size equal to the total both construct, and
\* return the same current() values and the same next() results step by step.
C4_ClampedLikeTotal ==
    (pc # "new" /\ Total >= 1 /\ size > Total /\ twin.size = Total) =>
        /\ pc = "ready" /\ twin.gen # Threw
        /\ lastCurrent = twin.lastCurrent
        /\ lastNext = twin.lastNext
        /\ Enumerating => current(gen) = current(twin.gen)

C4_Witness ==
    /\ Total = 3 /\ size = 4 /\ twin.size = 3
    /\ mode = "MIN" /\ Cardinality(DOMAIN countMap) = 2
    /\ op = "current" /\ lastNext = "none" /\ Len(lastCurrent) = 3
    /\ twin.lastCurrent = lastCurrent

\* C5: construction throws std::invalid_argument exactly when the map is
\* empty or all its counts are 0, whatever the size and the mode; for every
\* other map it succeeds.
C5_ThrowsIffNoAtoms ==
    pc # "new" =>
        /\ pc = "threw" <=> (\A a \in DOMAIN countMap : countMap[a] = 0)
        /\ pc = "threw" <=> gen = Threw
        /\ pc \in {"threw", "ready"}

C5_Witness ==
    /\ pc = "threw"
    /\ Cardinality(DOMAIN countMap) = 2
    /\ size = 1

\* C6: after any number of next() calls that all returned true, current()
\* returns a sequence sorted ascending in the natural order of the atoms.
C6_Sorted ==
    Enumerating =>
        /\ IsSorted(current(gen))
        /\ op = "current" => IsSorted(lastCurrent)

C6_Witness ==
    /\ Enumerating /\ op = "current" /\ lastNext = "true"
    /\ lastCurrent = <<3, 5, 8>>

\* C7: once next() has returned false, every later call of next() returns
\* false too.
C7_ExhaustionTerminal == [][lastNext = "false" => lastNext' = "false"]_vars

C7_Witness ==
    /\ pc = "ready" /\ lastNext = "false" /\ nRepeat = MaxRepeat
    /\ mode = "EXACT" /\ Len(produced) >= 2

\* C8: a call of current() changes nothing of the generator, so the next
\* next() and the rest of the enumeration are what they would have been
\* without it, and a repeated call returns the same sequence.
C8_CurrentIsPure ==
    [][op' = "current" =>
          /\ gen' = gen
          /\ next(gen') = next(gen)
          /\ current(gen') = lastCurrent'
          /\ produced' = produced
          /\ op = "current" => lastCurrent' = lastCurrent]_vars

C8_Witness ==
    /\ op = "current" /\ nRepeat = MaxRepeat
    /\ lastNext = "true" /\ Len(produced) >= 2

\* C9: right after a successful construction, before any next(), current()
\* returns a combination that respects the availability of every atom and
\* whose length the mode permits for the clamped size; size 0 included.
C9_FirstCombinationValid ==
    (pc = "ready" /\ lastNext = "none") =>
        /\ RespectsAvailability(current(gen))
        /\ AllowedLen(Len(current(gen)))
        /\ produced = <<current(gen)>>
        /\ op = "current" => lastCurrent = current(gen)

C9_Witness ==
    /\ pc = "ready" /\ lastNext = "none" /\ op = "current"
    /\ size = 0 /\ mode = "MAX" /\ Total = 3
    /\ lastCurrent = <<>>

\* the number of next() calls made so far by the documented loop
NextCalls == IF lastNext = "none" THEN 0
             ELSE Len(produced) - 1 + (IF lastNext = "false" THEN 1 ELSE 0)

\* C10: the loop do { current() } while(next()) terminates: next() returns
\* false after at most as many calls as the map has combinations of a
\* permitted size.
C10_LoopTerminates ==
    /\ <>(pc = "threw" \/ lastNext = "false")
    /\ [](pc = "ready" =>
            NextCalls <= Cardinality({b \in SubBags : AllowedLen(BagSize(b))}))

C10_Witness ==
    /\ pc = "ready" /\ lastNext = "false"
    /\ mode = "MIN" /\ Total = 4
    /\ NextCalls = Len(produced) /\ Len(produced) >= 5

\* the atoms A, B, C of the scenarios, in their natural order
AtomA == CHOOSE a \in Atoms : \A b \in Atoms : a <= b
AtomC == CHOOSE a \in Atoms : \A b \in Atoms : a >= b
AtomB == CHOOSE a \in Atoms : a # AtomA /\ a # AtomC

ProducedSet == {produced[i] : i \in DOMAIN produced}

\* C11: for {A:2, B:1, C:1}, size 2 and MAX, the combinations produced until
\* next() returns false are exactly A, B, C, AA, AB, AC, BC: 7 of them, and
\* neither BB nor CC.
C11_ScenarioMax ==
    (/\ countMap = (AtomA :> 2) @@ (AtomB :> 1) @@ (AtomC :> 1)
     /\ size = 2 /\ mode = "MAX"
     /\ pc = "ready" /\ lastNext = "false") =>
        /\ ProducedSet = {<<AtomA>>, <<AtomB>>, <<AtomC>>, <<AtomA, AtomA>>,
                          <<AtomA, AtomB>>, <<AtomA, AtomC>>, <<AtomB, AtomC>>}
        /\ Len(produced) = 7
        /\ <<AtomB, AtomB>> \notin ProducedSet
        /\ <<AtomC, AtomC>> \notin ProducedSet

C11_Witness ==
    /\ countMap = (AtomA :> 2) @@ (AtomB :> 1) @@ (AtomC :> 1)
    /\ size = 2 /\ mode = "MAX"
    /\ pc = "ready" /\ lastNext = "false"
    /\ Len(produced) = 7

\* C12: for {A:1}, size 5 and EXACT, construction succeeds with the size
\* clamped to 1, current() returns the combination A, and the first next()
\* returns false: one combination in all.
C12_ScenarioClamped ==
    (/\ countMap = (AtomA :> 1)
     /\ size = 5 /\ mode = "EXACT"
     /\ pc # "new") =>
        /\ pc = "ready"
        /\ gen.mSize = 1
        /\ produced = <<(<<AtomA>>)>>
        /\ lastNext = "none" => current(gen) = <<AtomA>>
        /\ op = "current" => lastCurrent = <<AtomA>>
        /\ lastNext \in {"none", "false"}

C12_Witness ==
    /\ countMap = (AtomA :> 1)
    /\ size = 5 /\ mode = "EXACT"
    /\ pc = "ready" /\ lastNext = "false" /\ lastCurrent = <<AtomA>>
    /\ produced = <<(<<AtomA>>)>>

\* C13: totalNumberOfAtoms(countMap) returns the sum of the counts of the
\* map, 0 for the empty map, for every map, and changes neither a map nor a
\* generator.
C13_TotalIsSum ==
    /\ [](totalCall # NoCall =>
            /\ totalCall.result \in Nat
            /\ totalCall.result = SumOver(totalCall.arg, DOMAIN totalCall.arg)
            /\ DOMAIN totalCall.arg = {} => totalCall.result = 0)
    /\ [][totalCall' # totalCall =>
            /\ gen' = gen
            /\ countMap' = countMap
            /\ totalCall'.arg \in CountMaps]_vars

C13_Witness ==
    /\ pc = "ready" /\ totalCall # NoCall
    /\ Cardinality(DOMAIN totalCall.arg) = 3
    /\ totalCall.result = 4
    /\ totalCall.arg # countMap

\* C15: a generator owns exactly one walker, created during its construction
\* and released when the generator is destroyed: no walker stays allocated
\* once its generator is destroyed.
C15_WalkerReleased ==
    /\ pc = "ready" => heap = 1 /\ gen.mpItemCombinationGenerator # NullPtr
    /\ pc \in {"new", "threw"} => heap = 0
    /\ pc = "destroyed" => heap = 0

\* the number of distinct keys of the map
NKeys == Cardinality(DOMAIN countMap)

\* the key with exactly c smaller keys: the c-th smallest, counted from 0
KeyOfRank(c) ==
    CHOOSE a \in DOMAIN countMap : Cardinality({b \in DOMAIN countMap : b < a}) = c

\* the number of keys smaller than the atom a
RankOfKey(a) == Cardinality({b \in DOMAIN countMap : b < a})

\* C16: after construction from a map with n keys, the code-to-atom table has
\* n entries, the k-th smallest key has code k, and atom <-> code is a
\* bijection between the keys (those of count 0 included) and 0..n-1.
C16_CodesInKeyOrder ==
    pc = "ready" =>
        /\ Len(gen.mAtomTypeList) = NKeys
        /\ \A k \in 0..(NKeys - 1) : gen.mAtomTypeList[k + 1] = KeyOfRank(k)
        /\ {gen.mAtomTypeList[i] : i \in DOMAIN gen.mAtomTypeList} = DOMAIN countMap
        /\ \A i, j \in DOMAIN gen.mAtomTypeList :
              gen.mAtomTypeList[i] = gen.mAtomTypeList[j] => i = j

C16_Witness ==
    /\ pc = "ready"
    /\ NKeys = 3 /\ countMap[AtomB] = 0 /\ countMap[AtomC] = 2
    /\ gen.mAtomTypeList = <<AtomA, AtomB, AtomC>>

\* C17: after construction, the item list handed to the walker holds only
\* codes of 0..n-1, each code as often as the count of its atom, and is as
\* long as totalNumberOfAtoms of the map.
C17_ItemsPerCount ==
    pc = "ready" =>
        /\ \A i \in DOMAIN gen.mItems : gen.mItems[i] \in 0..(NKeys - 1)
        /\ \A c \in 0..(NKeys - 1) :
              Occurrences(gen.mItems, c) = countMap[KeyOfRank(c)]
        /\ Len(gen.mItems) = Total
        /\ Len(gen.mItems) = totalNumberOfAtoms(countMap)
        /\ gen.mpItemCombinationGenerator.items = gen.mItems

C17_Witness ==
    /\ pc = "ready"
    /\ NKeys = 3 /\ countMap[AtomA] = 2 /\ countMap[AtomB] = 0 /\ countMap[AtomC] = 1
    /\ gen.mItems = <<2, 0, 0>>

\* C18: before exhaustion, current() is the decoding of the walker's current
\* code sequence: as long, each atom as often as its code occurs there, and
\* encoded again it is the walker's combination as a multiset.
C18_CurrentDecodesWalker ==
    Enumerating =>
        LET codes == Combination_current(gen.mpItemCombinationGenerator)
            atoms == current(gen)
            encoded == [i \in DOMAIN atoms |-> RankOfKey(atoms[i])]
        IN  /\ Len(atoms) = Len(codes)
            /\ \A i \in DOMAIN atoms : atoms[i] \in DOMAIN countMap
            /\ \A c \in 0..(NKeys - 1) :
                  /\ Occurrences(atoms, KeyOfRank(c)) = Occurrences(codes, c)
                  /\ Occurrences(encoded, c) = Occurrences(codes, c)
            /\ \A i \in DOMAIN codes : codes[i] \in 0..(NKeys - 1)

C18_Witness ==
    /\ Enumerating /\ lastNext = "true"
    /\ Combination_current(gen.mpItemCombinationGenerator) = <<2, 1, 0>>
    /\ current(gen) = <<AtomA, AtomB, AtomC>>

\* the fields of a generator that construction sets for good
Retained(g) ==
    <<g.mAtomTypeAvailablilityMap, g.mAtomTypeList, g.mItems, g.mSize, g.mMode>>

\* what a walker was constructed with
WalkerSetup(w) == <<w.items, w.size, w.mode, w.walk>>

\* C19: after construction, no call of current() or next() changes the
\* retained map, the code-to-atom table, the item list, the clamped size or
\* the mode; next() changes only the walker's cursor.
C19_OnlyCursorMoves ==
    [][pc = "ready" =>
          /\ Retained(gen') = Retained(gen)
          /\ WalkerSetup(gen'.mpItemCombinationGenerator)
                = WalkerSetup(gen.mpItemCombinationGenerator)
          /\ gen.mAtomTypeAvailablilityMap = countMap
          /\ gen.mSize = Clamped /\ gen.mMode = mode]_vars

C19_Witness ==
    /\ pc = "ready" /\ lastNext = "false" /\ nRepeat = 1
    /\ op = "next" /\ Len(produced) >= 4
    /\ Retained(gen) = <<countMap, SortedSeq(DOMAIN countMap), gen.mItems, Clamped, mode>>

=============================================================================
